---- MODULE Spec2Model ----
(***************************************************************************)
(* Verification model of the AffinityGraph controller:                     *)
(*   - the retry/backoff executor of services/geminiService.ts (withRetry) *)
(*   - the orchestration controller of App.tsx: ingestion pipeline,        *)
(*     recommendation refresh, reactive profiling and deployment.          *)
(***************************************************************************)
EXTENDS Integers, Sequences, FiniteSets, Bags, TLC

\* ------------------------------------------------------------------------
\* Bounds of the model
\* ------------------------------------------------------------------------
\* largest maxRetries argument explored for withRetry
MaxRetriesArg == 3

\* ------------------------------------------------------------------------
\* Program constants
\* ------------------------------------------------------------------------
\* withRetry: delay = Math.pow(2, attempt) * 2000
BaseDelayMs == 2000

\* Spec: number of user events after the dashboard is entered (upload, select,
\* status update, deployment, DNA import, exit)
MaxEvents == 2
\* Spec: number of steps of the controller (user events, completions of async work)
MaxSteps == 7
\* BurstSpec (bursts of user events, few completions): the same two budgets
BurstEvents == 3
BurstSteps == 6
\* LiveSpec: number of user events, and number of steps other than the
\* answers of the gateway to ingestion runs and recommendation refreshes
LiveEvents == 1
LiveSteps == 4
\* ProfilingSpec: number of user events, and number of steps other than timer
\* expiries and answers of the gateway
ProfilingEvents == 1
ProfilingSteps == 3
\* SampleSpec: largest number of uploaded records
MaxRecords == 160

VARIABLES
    rt,         \* one execution of withRetry(fn, maxRetries)
    ui,         \* the React state of App (one field per useState)
    ls,         \* localStorage: neural_dna, affinity_segments, active_reviews
    runs,       \* the runs of handleCustomDataLoaded, in start order
    fetches,    \* fetchInsights calls started by the recommendations effect, in flight
    timers,     \* pending debounce timers of the profiling effect
    profReqs,   \* profiling request pairs (Promise.all) in flight
    deploys,    \* generateCampaignManifest calls of handleSegmentUpdate, in flight
    crashed,    \* the dashboard render threw (activeSegment undefined): tree unmounted
    last,       \* the gateway call that settled in the latest step (NoCall: none did)
    toastTimers, \* the pending timers of the deployment notification, oldest first
    smp,        \* one computation of the sample of handleCustomDataLoaded
    events,     \* user events left in the budget
    steps       \* steps left in the budget

appVars == <<ui, ls, runs, fetches, timers, profReqs, deploys, crashed, last, toastTimers, smp, events, steps>>
vars == <<rt, ui, ls, runs, fetches, timers, profReqs, deploys, crashed, last, toastTimers, smp, events, steps>>

\* ------------------------------------------------------------------------
\* Error messages are sequences of characters, so that toLowerCase and
\* String.prototype.includes are computed and not assumed.
\* ------------------------------------------------------------------------
\* an optional message: <<>> when the thrown value has no message, <<text>> otherwise
Undefined == <<>>
Some(text) == <<text>>

Msg429      == <<"H","T","T","P"," ","4","2","9">>
MsgQuotaCap == <<"Q","u","o","t","a"," ","h","i","t">>
MsgResExh   == <<"R","E","S","O","U","R","C","E","_","E","X","H","A","U","S","T","E","D">>
MsgQuotLow  == <<"d","a","i","l","y"," ","q","u","o","t","a">>
MsgNet      == <<"n","e","t"," ","4","2"," ","9">>
MsgParse    == <<"J","S","O","N"," ","q","u","o","t","e">>
MsgEmpty    == <<>>

\* the messages fn's failures are drawn from (Undefined: a thrown value with no message)
FnMessages == {Some(Msg429), Some(MsgQuotaCap), Some(MsgResExh), Some(MsgQuotLow),
               Some(MsgNet), Some(MsgParse), Some(MsgEmpty), Undefined}

\* new QuotaError("Gemini API Quota Exceeded.")
QuotaExceededMessage ==
    <<"G","e","m","i","n","i"," ","A","P","I"," ","Q","u","o","t","a"," ",
      "E","x","c","e","e","d","e","d",".">>

UpperToLower ==
    [c \in {"A","B","C","D","E","F","G","H","I","J","K","L","M","N","O","P","Q","R","S","T","U","V","W","X","Y","Z"} |->
        CASE c = "A" -> "a" [] c = "B" -> "b" [] c = "C" -> "c" [] c = "D" -> "d"
          [] c = "E" -> "e" [] c = "F" -> "f" [] c = "G" -> "g" [] c = "H" -> "h"
          [] c = "I" -> "i" [] c = "J" -> "j" [] c = "K" -> "k" [] c = "L" -> "l"
          [] c = "M" -> "m" [] c = "N" -> "n" [] c = "O" -> "o" [] c = "P" -> "p"
          [] c = "Q" -> "q" [] c = "R" -> "r" [] c = "S" -> "s" [] c = "T" -> "t"
          [] c = "U" -> "u" [] c = "V" -> "v" [] c = "W" -> "w" [] c = "X" -> "x"
          [] c = "Y" -> "y" [] c = "Z" -> "z"]

\* String.prototype.toLowerCase
toLowerCase(s) ==
    [i \in 1..Len(s) |-> IF s[i] \in DOMAIN UpperToLower THEN UpperToLower[s[i]] ELSE s[i]]

\* String.prototype.includes
includes(s, sub) ==
    \E i \in 1..(Len(s) - Len(sub) + 1) : SubSeq(s, i, i + Len(sub) - 1) = sub

\* Response texts that are not valid JSON
TextOops  == <<"o","o","p","s">>
TextQuota == <<"Q","u","o","t","a"," ","h","i","t">>
Text429   == <<"e","r","r"," ","4","2","9">>
MalformedTexts == {TextOops, TextQuota, Text429}

\* The message of the SyntaxError JSON.parse(response.text) throws is chosen
\* by the JavaScript engine: some engines quote the offending text in it
\* ("Unexpected token 'Q', \"Quota hit\" is not valid JSON"), others do not
\* ("JSON.parse: unexpected character at line 1 column 1 of the JSON data").
ParseMessageQuoting(text) == <<"b","a","d"," ","t","o","k","e","n"," ">> \o text
ParseMessagePlain == <<"b","a","d"," ","c","h","a","r">>
JSONParseMessages(text) == {ParseMessageQuoting(text), ParseMessagePlain}

\* variant: the message is searched as it is, without toLowerCase
errorMessageCaseSensitive(err) ==
    IF err.message = Undefined THEN <<>> ELSE err.message[1]

\* const errorMessage = error?.message?.toLowerCase() || "";
errorMessageOf(err) ==
    IF err.message = Undefined THEN <<>> ELSE toLowerCase(err.message[1])

\* variant: every failure is classified as rate limiting
isRateLimitAlways(err) == TRUE

\* const isRateLimit = includes('429') || includes('resource_exhausted') || includes('quota')
isRateLimit(err) ==
    \/ includes(errorMessageOf(err), <<"4","2","9">>)
    \/ includes(errorMessageOf(err), <<"r","e","s","o","u","r","c","e","_","e","x","h","a","u","s","t","e","d">>)
    \/ includes(errorMessageOf(err), <<"q","u","o","t","a">>)

\* Math.pow(2, attempt)
RECURSIVE Pow2(_)
Pow2(n) == IF n = 0 THEN 1 ELSE 2 * Pow2(n - 1)

\* variant: every wait lasts the base delay (no doubling)
backoffDelayNoGrowth(attempt) == BaseDelayMs

\* const delay = Math.pow(2, attempt) * 2000;
backoffDelay(attempt) == Pow2(attempt) * BaseDelayMs

\* the error object fn throws on its k-th invocation (obj: the object's identity)
FnError(k, m) == [name |-> "Error", message |-> m, obj |-> k]

\* the SyntaxError of return JSON.parse(response.text), thrown inside fn
ParseError(k, m) == [name |-> "SyntaxError", message |-> Some(m), obj |-> k]

\* variant: exhaustion rethrows the last error of fn
thrownOnExhaustionOriginal(err) == err

\* throw new QuotaError("Gemini API Quota Exceeded.")  (obj 0: a fresh object)
thrownOnExhaustion(err) == [name |-> "QuotaError", message |-> Some(QuotaExceededMessage), obj |-> 0]

\* if (attempt < maxRetries)
retriesLeft(attempt, maxRetries) == attempt < maxRetries

\* variant: every failure is reported as QuotaError
thrownOtherWrapped(err) == [name |-> "QuotaError", message |-> Some(QuotaExceededMessage), obj |-> 0]

\* throw error;   (a failure that is not rate-limit classified)
thrownOther(err) == err

NoError  == [name |-> "none", message |-> Undefined, obj |-> -1]
NoResult == [value |-> "none", attempt |-> -1]

\* no execution of withRetry under way
RtIdle == [pc |-> "idle", maxRetries |-> 0, attempt |-> 0, calls |-> 0,
           delays |-> <<>>, errs |-> <<>>, result |-> NoResult, thrown |-> NoError]

\* ------------------------------------------------------------------------
\* Controller (App.tsx): values
\* ------------------------------------------------------------------------
NoManifest == [id |-> 0, gen |-> -1]
NoSegment  == [id |-> 0, gen |-> -1, status |-> "none", manifest |-> NoManifest]
NoProfile  == [seg |-> <<0, -1>>]
NoErrorState == [type |-> "none", message |-> <<>>]

\* deploymentToast: null, or the name of the deployed segment (emittedAt tells
\* two notifications with the same name apart: the step budget left when set)
NoToast == [name |-> 0, emittedAt |-> -1]
Toast(name, at) == [name |-> name, emittedAt |-> at]

\* the delay of setTimeout(() => setDeploymentToast(null), 3000)
ToastMs == 3000

\* A stored segment: gen names the store generation that created the object
\* (0: the built-in defaults, r: the r-th ingestion run), so that two segments
\* with the same id from different generations are told apart.
Segment(i, g) == [id |-> i, gen |-> g, status |-> "Discovery", manifest |-> NoManifest]

\* import { MOCK_SEGMENTS } from './constants'
MOCK_SEGMENTS == <<Segment(1, 0), Segment(2, 0)>>

\* import { MOCK_REVIEWS } from './constants'   (a review collection is a token)
MOCK_REVIEWS == 0

\* the LearnedDomainContext handed to handleImportDNA (contexts are tokens:
\* 0 is null, r is the context synthesized by run r)
ImportedDNA == 99

\* the id lists Discover-Segments may answer with
DiscoveredIdLists == { <<>>, <<2>>, <<1, 2>> }

\* outcomes of a gateway call behind withRetry
FailureKinds == {"quota", "other"}

\* setError({ type: 'quota', message: err.message })  with err a QuotaError
QuotaErrorState == [type |-> "quota", message |-> QuotaExceededMessage]

\* segments.find(s => s.id === id)
findSegment(segs, id) ==
    IF \E i \in 1..Len(segs) : segs[i].id = id
    THEN segs[CHOOSE i \in 1..Len(segs) :
                /\ segs[i].id = id
                /\ \A j \in 1..(i - 1) : segs[j].id # id]
    ELSE NoSegment

\* const activeSegment = segments.find(s => s.id === selectedSegmentId) || segments[0]
activeSegment(segs, sel) ==
    IF findSegment(segs, sel) # NoSegment THEN findSegment(segs, sel)
    ELSE IF Len(segs) > 0 THEN segs[1] ELSE NoSegment

ActiveNow == activeSegment(ui.segments, ui.selectedSegmentId)

SegKey(sg) == <<sg.id, sg.gen>>

\* the texts handed to addLog (the time stamp and the names inside are left out)
LogInitialized    == "Neural core initialized"
LogInjected       == "Transferable Hypothesis Injected"
LogDeployInit     == "DEPLOYMENT INITIATED"
LogDeployComplete == "DEPLOYMENT COMPLETE"
LogDeployFailed   == "DEPLOYMENT FAILED"
LogIngesting      == "Ingesting telemetry stream"
LogSynthesis      == "Synthesis complete"

\* prev.slice(-4): the entries addLog keeps in front of the new one
LogsKept == 4

\* Array.prototype.slice(-k)
sliceLast(seq, k) ==
    IF Len(seq) <= k THEN seq ELSE SubSeq(seq, Len(seq) - k + 1, Len(seq))

\* setLogs(prev => [...prev.slice(-4), msg])
addLog(u, msg) == [u EXCEPT !.logs = Append(sliceLast(@, LogsKept), msg)]

\* the state after construction (localStorage holds none of the three entries;
\* the mount effect of lines 74-82 found no log and no context and logged once)
InitialUi ==
    [view |-> "landing", error |-> NoErrorState, learnedContext |-> 0,
     segments |-> MOCK_SEGMENTS, activeReviews |-> MOCK_REVIEWS,
     selectedSegmentId |-> MOCK_SEGMENTS[1].id,
     recommendations |-> [len |-> 0, ctx |-> 0],
     personaDetails |-> NoProfile, frictionData |-> NoProfile,
     loading |-> FALSE, profilingLoading |-> FALSE, progressStep |-> "idle",
     logs |-> <<LogInitialized>>, deploymentToast |-> NoToast]

InitialLs == [neural_dna |-> <<>>, affinity_segments |-> <<>>, active_reviews |-> <<>>]

\* ------------------------------------------------------------------------
\* Gateway (geminiService.ts)
\* ------------------------------------------------------------------------
\* results.map(s => ({ ...s, affinityScores, status: 'Discovery', lastUpdated: now }))
discoverSegments(ids, r) == [i \in 1..Len(ids) |-> Segment(ids[i], r)]

\* ------------------------------------------------------------------------
\* Controller: pieces of the handlers
\* ------------------------------------------------------------------------
catchQuotaIgnored(u, kind) == u

\* variant: every failure sets the user-visible error state
catchAnyError(u, kind) == [u EXCEPT !.error = QuotaErrorState]

\* catch (err) { if (err instanceof QuotaError) setError({ type: 'quota', ... }) }
catchQuota(u, kind) ==
    IF kind = "quota" THEN [u EXCEPT !.error = QuotaErrorState] ELSE u

\* variant: the finally block leaves the progress step as it is
finallyKeepsStep(u) == [u EXCEPT !.loading = FALSE]

\* finally { setLoading(false); setProgressStep('idle'); }
finallyIdle(u) == [u EXCEPT !.loading = FALSE, !.progressStep = "idle"]

\* fetchInsights: setLoading(true); setError(null);
fetchInsightsBegin(u) == [u EXCEPT !.loading = TRUE, !.error = NoErrorState]

\* fetchInsights: the try/catch/finally after the await (out: "full", "empty",
\* "quota", "other"; ctx: the context the request was made with)
fetchInsightsEnd(u, out, ctx) ==
    finallyIdle(
        IF out = "full" THEN [u EXCEPT !.recommendations = [len |-> 1, ctx |-> ctx]]
        ELSE IF out = "empty" THEN [u EXCEPT !.recommendations = [len |-> 0, ctx |-> ctx]]
        ELSE catchQuota(u, out))

\* variant: the new context is not written to localStorage
storeNewDnaOnlyInMemory(u, l, dna) ==
    [u |-> [u EXCEPT !.learnedContext = dna, !.progressStep = "analyzing"], l |-> l]

\* setLearnedContext(newDna); localStorage.setItem('neural_dna', ...);
\* setProgressStep('analyzing');
storeNewDna(u, l, dna) ==
    [u |-> [u EXCEPT !.learnedContext = dna, !.progressStep = "analyzing"],
     l |-> [l EXCEPT !.neural_dna = <<dna>>]]

\* variant: the segments are stored as soon as they are discovered
afterDiscoveryEager(u, l, discovered) ==
    [u |-> [u EXCEPT !.segments = discovered],
     l |-> [l EXCEPT !.affinity_segments = <<discovered>>]]

\* const discovered = await discoverSegments(...): nothing is stored before
\* generateContextualReviews has answered
afterDiscovery(u, l, discovered) == [u |-> u, l |-> l]

\* variant: a discovered segment keeps the status of the old segment with its id
mergeWithPrevious(prev, discovered) ==
    [i \in 1..Len(discovered) |->
        IF findSegment(prev, discovered[i].id) # NoSegment
        THEN [discovered[i] EXCEPT !.status = findSegment(prev, discovered[i].id).status,
                                   !.manifest = findSegment(prev, discovered[i].id).manifest]
        ELSE discovered[i]]

\* setSegments(discovered): the new value of the segment store
replacedSegments(prev, discovered) == discovered

\* setSegments(discovered); setActiveReviews(contextReviews);
\* localStorage.setItem('affinity_segments', ...); localStorage.setItem('active_reviews', ...);
replaceStores(u, l, discovered, reviews) ==
    [u |-> [u EXCEPT !.segments = replacedSegments(u.segments, discovered),
                     !.activeReviews = reviews],
     l |-> [l EXCEPT !.affinity_segments = <<discovered>>, !.active_reviews = <<reviews>>]]

\* variant: the status is merged without the manifest
mergeDeploymentStatusOnly(segs, id, status, manifest) ==
    [i \in 1..Len(segs) |->
        IF segs[i].id = id THEN [segs[i] EXCEPT !.status = status] ELSE segs[i]]

\* variant: the segment captured when the request was made is written back
\* ({ ...seg, ...updates, manifest } in place of { ...s, ...updates, manifest })
mergeDeploymentFromClosure(segs, id, status, manifest) ==
    [i \in 1..Len(segs) |->
        IF segs[i].id = id
        THEN [id |-> id, gen |-> manifest.gen, status |-> status, manifest |-> manifest]
        ELSE segs[i]]

\* handleSegmentUpdate: prev.map(s => s.id === id ? { ...s, ...updates, manifest } : s)
mergeDeployment(segs, id, status, manifest) ==
    [i \in 1..Len(segs) |->
        IF segs[i].id = id THEN [segs[i] EXCEPT !.status = status, !.manifest = manifest]
        ELSE segs[i]]

\* variant: the deployment also writes the merged segments to localStorage
deploymentStoresPersisted(u, l, id, status, manifest) ==
    [u |-> [u EXCEPT !.segments = mergeDeployment(@, id, status, manifest)],
     l |-> [l EXCEPT !.affinity_segments =
                        <<mergeDeployment(u.segments, id, status, manifest)>>]]

\* handleSegmentUpdate after the await: setSegments(...) and no localStorage.setItem
deploymentStores(u, l, id, status, manifest) ==
    [u |-> [u EXCEPT !.segments = mergeDeployment(@, id, status, manifest)], l |-> l]

\* handleSegmentUpdate: prev.map(s => s.id === id ? { ...s, ...updates } : s)
mergeUpdates(segs, id, status) ==
    [i \in 1..Len(segs) |->
        IF segs[i].id = id THEN [segs[i] EXCEPT !.status = status] ELSE segs[i]]

\* setPersonaDetails(persona); setFrictionData(friction);   (the results are
\* tagged with the segment the request was made for)
applyProfile(u, rq) ==
    [u EXCEPT !.personaDetails = [seg |-> rq.seg], !.frictionData = [seg |-> rq.seg]]

\* variant: the effect cleanup leaves the pending timer armed
keepTimers(ts) == ts

\* return () => clearTimeout(timer);   (the cleanup of the previous effect run)
clearTimers(ts) == << >>

\* ------------------------------------------------------------------------
\* Effects.  A handler step yields the new React state u; the effects whose
\* dependencies it changed run on u before the step ends.
\* ------------------------------------------------------------------------
\* useEffect(() => { if (recommendations.length === 0 && view === 'dashboard')
\*                     fetchInsights(segments, activeReviews, learnedContext); }, [...])
recsEffectFires(u, changed) ==
    changed /\ u.recommendations.len = 0 /\ u.view = "dashboard"

\* the profiling effect schedules a timer
profEffectSchedules(u) ==
    activeSegment(u.segments, u.selectedSegmentId) # NoSegment /\ u.view # "landing"

\* selection changes in the debounce window a new timer continues
WindowSelects(ts) == IF Len(ts) > 0 THEN ts[Len(ts)].selects ELSE 0

\* const timer = setTimeout(..., 500): the callback closes over activeSegment
NewTimer(u, ts, bySelect) ==
    [seg |-> SegKey(activeSegment(u.segments, u.selectedSegmentId)),
     selects |-> WindowSelects(ts) + (IF bySelect THEN 1 ELSE 0)]

\* the React state after the effects ran
UiAfterEffects(u, recsChanged, profChanged) ==
    LET u1 == IF recsEffectFires(u, recsChanged) THEN fetchInsightsBegin(u) ELSE u
    IN  IF profChanged /\ profEffectSchedules(u1)
        THEN [u1 EXCEPT !.profilingLoading = TRUE]
        ELSE u1

\* fetchInsights calls in flight after the effects ran
FetchesAfterEffects(u, fs, recsChanged) ==
    IF recsEffectFires(u, recsChanged)
    THEN fs (+) SetToBag({[ctx |-> u.learnedContext]})
    ELSE fs

\* pending timers after the effects ran
TimersAfterEffects(u, profChanged, bySelect) ==
    IF ~profChanged THEN timers
    ELSE IF profEffectSchedules(u)
         THEN Append(clearTimers(timers), NewTimer(u, timers, bySelect))
         ELSE clearTimers(timers)

\* the dashboard render dereferences activeSegment (activeSegment.status)
RenderThrows(u) ==
    u.view = "dashboard" /\ activeSegment(u.segments, u.selectedSegmentId) = NoSegment

\* one step of the controller: handler result u and l, then render and effects
\* (fs: the fetchInsights calls still in flight).  When the render throws, React
\* unmounts the tree: no effect runs and the effect cleanup clears the timer.
Commit(u, l, fs, recsChanged, profChanged, bySelect) ==
    /\ ui' = IF RenderThrows(u) THEN u ELSE UiAfterEffects(u, recsChanged, profChanged)
    /\ ls' = l
    /\ fetches' = IF RenderThrows(u) THEN fs ELSE FetchesAfterEffects(u, fs, recsChanged)
    /\ timers' = IF RenderThrows(u) THEN clearTimers(timers)
                 ELSE TimersAfterEffects(u, profChanged, bySelect)
    /\ crashed' = RenderThrows(u)

Remove(seq, i) == SubSeq(seq, 1, i - 1) \o SubSeq(seq, i + 1, Len(seq))

\* in-flight requests are bags: equal requests are told apart only by number
One(x) == SetToBag({x})
InFlight(bag) == BagToSet(bag)

\* ------------------------------------------------------------------------
\* Systematic sampling (handleCustomDataLoaded, lines 161-162)
\* ------------------------------------------------------------------------
\* the 50 of Math.floor(cleanedData.length / 50) and of slice(0, 50)
SampleCap == 50

\* the uploaded records: record i (from 0) is the token 1000 + i
Records(n) == [i \in 1..n |-> 1000 + (i - 1)]

\* variant: the stride is rounded up
strideRoundedUp(n) ==
    IF (n + SampleCap - 1) \div SampleCap >= 1 THEN (n + SampleCap - 1) \div SampleCap ELSE 1

\* const stride = Math.max(1, Math.floor(cleanedData.length / 50));
strideOf(n) == IF n \div SampleCap >= 1 THEN n \div SampleCap ELSE 1

\* Array.prototype.filter: the elements whose index passes the test, in the
\* order of the array (the k-th kept element is the one with k - 1 kept
\* indices before it)
filterIndices(data, kept) ==
    [k \in 1..Cardinality(kept) |->
        data[(CHOOSE i \in kept : Cardinality({j \in kept : j < i}) = k - 1) + 1]]

\* variant: the filter keeps the last record of every stride-group
filterFromGroupEnd(data, stride) ==
    filterIndices(data, {i \in 0..(Len(data) - 1) : (i + 1) % stride = 0})

\* cleanedData.filter((_, i) => i % stride === 0)
filterByStride(data, stride) ==
    filterIndices(data, {i \in 0..(Len(data) - 1) : i % stride = 0})

\* Array.prototype.slice(0, k)
sliceFirst(seq, k) == IF Len(seq) <= k THEN seq ELSE SubSeq(seq, 1, k)

\* const sample = cleanedData.filter(...).slice(0, 50);
sampleOf(data, stride) == sliceFirst(filterByStride(data, stride), SampleCap)

NotSampling == [pc |-> "idle", data |-> << >>, stride |-> 0, sample |-> << >>]

\* the gateway call that settled in a step: its flow and its outcome
NoCall == [flow |-> "none", out |-> "none"]
Settled(flow, out) ==
    [flow |-> flow, out |-> IF out \in {"quota", "other"} THEN out ELSE "ok"]

\* ------------------------------------------------------------------------
\* Controller: actions
\* ------------------------------------------------------------------------
AppInit ==
    /\ ui = InitialUi
    /\ ls = InitialLs
    /\ runs = << >>
    /\ fetches = EmptyBag
    /\ timers = << >>
    /\ profReqs = EmptyBag
    /\ deploys = EmptyBag
    /\ crashed = FALSE
    /\ last = NoCall
    /\ toastTimers = << >>

Init ==
    rt = RtIdle /\ AppInit /\ smp = NotSampling /\ events = MaxEvents /\ steps = MaxSteps

BurstInit ==
    rt = RtIdle /\ AppInit /\ smp = NotSampling /\ events = BurstEvents /\ steps = BurstSteps

\* LiveSpec counts its step budget down to LiveFloor and does not charge the
\* answers of the gateway to runs and refreshes; Spec and BurstSpec stay below
\* LiveFloor and charge every step
LiveFloor == MaxSteps + 1

\* ProfilingSpec counts its step budget down to ProfilingFloor and charges
\* neither the answers of the gateway nor the expiry of the debounce timer
ProfilingFloor == LiveFloor + LiveSteps + 1

Step ==
    /\ ~crashed
    /\ steps > 0 /\ steps # LiveFloor /\ steps # ProfilingFloor
    /\ steps' = steps - 1
    /\ UNCHANGED smp

UserEvent ==
    /\ Step
    /\ events > 0
    /\ events' = events - 1
    /\ last' = NoCall

Completion ==
    /\ Step
    /\ UNCHANGED events

\* the debounce timer of the profiling effect fires, or the gateway answers a
\* call of a profiling pair
ProfilingStep ==
    /\ ~crashed
    /\ IF steps >= ProfilingFloor THEN steps' = steps
       ELSE steps > 0 /\ steps # LiveFloor /\ steps' = steps - 1
    /\ UNCHANGED <<events, smp>>

\* the gateway answers a call of an ingestion run or of a recommendation refresh
GatewayAnswer ==
    /\ ~crashed
    /\ IF steps >= LiveFloor THEN steps' = steps ELSE steps > 0 /\ steps' = steps - 1
    /\ UNCHANGED <<events, smp>>

\* a request to the gateway: the operation and the context, segments and
\* reviews handed to it (NotPassed: the operation is not given any)
NotPassed == << >>
Call(op, ctx, segs, reviews) == [op |-> op, ctx |-> ctx, segs |-> segs, reviews |-> reviews]

\* variant: the reviews are handed on to the gateway
fetchInsightsCallWithReviews(targetSegments, reviews, ctx) ==
    Call("recs", ctx, targetSegments, <<reviews>>)

\* fetchInsights(targetSegments, reviews, ctx):
\* await generateMerchandisingRecommendations(targetSegments, ctx)
fetchInsightsCall(targetSegments, reviews, ctx) ==
    Call("recs", ctx, targetSegments, NotPassed)

\* <LandingView onInitialize={() => setView('dashboard')} />
\* (entering the dashboard is not counted as one of the MaxEvents events)
Initialize ==
    /\ Step
    /\ UNCHANGED events
    /\ last' = NoCall
    /\ ui.view = "landing"
    /\ Commit([ui EXCEPT !.view = "dashboard"], ls, fetches, TRUE, TRUE, FALSE)
    /\ UNCHANGED <<rt, toastTimers, runs, profReqs, deploys>>

\* onClick={() => setView('landing')}
ExitHub ==
    /\ UserEvent
    /\ ui.view = "dashboard"
    /\ Commit([ui EXCEPT !.view = "landing"], ls, fetches, TRUE, TRUE, FALSE)
    /\ UNCHANGED <<rt, toastTimers, runs, profReqs, deploys>>

\* onSelect={setSelectedSegmentId}   (a card of another stored segment is clicked)
Select ==
    /\ UserEvent
    /\ ui.view = "dashboard"
    /\ \E i \in 1..Len(ui.segments) :
         /\ ui.segments[i].id # ui.selectedSegmentId
         /\ Commit([ui EXCEPT !.selectedSegmentId = ui.segments[i].id],
                   ls, fetches, FALSE, TRUE, TRUE)
    /\ UNCHANGED <<rt, toastTimers, runs, profReqs, deploys>>

\* handleImportDNA
ImportDNA ==
    /\ UserEvent
    /\ ui.view = "dashboard"
    /\ Commit(addLog([ui EXCEPT !.learnedContext = ImportedDNA], LogInjected),
              [ls EXCEPT !.neural_dna = <<ImportedDNA>>], fetches, TRUE, TRUE, FALSE)
    /\ UNCHANGED <<rt, toastTimers, runs, profReqs, deploys>>

\* handleSegmentUpdate(id, { status: 'Active Strategy' }): up to the await
DeployBegin ==
    /\ UserEvent
    /\ ui.view = "dashboard"
    /\ \E i \in 1..Len(ui.segments) :
         LET seg == findSegment(ui.segments, ui.segments[i].id)
         IN  deploys' = deploys (+) One([id |-> ui.segments[i].id, seg |-> SegKey(seg),
                                         status |-> "Active Strategy"])
    /\ Commit(addLog(ui, LogDeployInit), ls, fetches, FALSE, FALSE, FALSE)
    /\ UNCHANGED <<rt, toastTimers, runs, profReqs>>

\* handleSegmentUpdate: generateCampaignManifest resolved
DeployOk ==
    /\ Completion
    /\ \E d \in InFlight(deploys) :
         LET manifest == [id |-> d.seg[1], gen |-> d.seg[2]]
             st == deploymentStores(ui, ls, d.id, d.status, manifest)
         IN  /\ Commit(addLog([st.u EXCEPT !.deploymentToast = Toast(d.seg[1], steps)],
                              LogDeployComplete),
                       st.l, fetches, TRUE, TRUE, FALSE)
             /\ deploys' = deploys (-) One(d)
             /\ last' = Settled("deployment", "ok")
             /\ toastTimers' = Append(toastTimers, [delay |-> ToastMs, armedAt |-> steps])
    /\ UNCHANGED <<rt, runs, profReqs>>

\* variant: the catch clause of the deployment also reports a quota failure
deployCatchSurfacing(u, kind) == catchQuota(addLog(u, LogDeployFailed), kind)

\* catch (err) { addLog(`DEPLOYMENT FAILED: AI synthesis interrupted.`); }
deployCatch(u, kind) == addLog(u, LogDeployFailed)

\* handleSegmentUpdate: generateCampaignManifest rejected
DeployFail ==
    /\ Completion
    /\ \E d \in InFlight(deploys), kind \in FailureKinds :
         /\ deploys' = deploys (-) One(d)
         /\ Commit(deployCatch(ui, kind), ls, fetches, FALSE, FALSE, FALSE)
         /\ last' = Settled("deployment", kind)
    /\ UNCHANGED <<rt, toastTimers, runs, profReqs>>

\* handleSegmentUpdate(id, updates) with another status: the else branch
StatusUpdate ==
    /\ UserEvent
    /\ ui.view = "dashboard"
    /\ \E i \in 1..Len(ui.segments) :
         Commit([ui EXCEPT !.segments = mergeUpdates(@, ui.segments[i].id, "Discovery")],
                ls, fetches, TRUE, TRUE, FALSE)
    /\ UNCHANGED <<rt, toastTimers, runs, profReqs, deploys>>

\* handleCustomDataLoaded: setLoading(true); setError(null);
\* addLog("Ingesting telemetry stream..."); setProgressStep('parsing')
handleCustomDataLoadedBegin(u) ==
    [addLog(u, LogIngesting) EXCEPT
        !.loading = TRUE, !.error = NoErrorState, !.progressStep = "parsing"]

\* handleCustomDataLoaded(cleanedData, headers): up to the first await
Upload ==
    /\ UserEvent
    /\ ui.view = "dashboard"
    /\ runs' = Append(runs, [pc |-> "dna", prevCtx |-> ui.learnedContext, newDna |-> 0,
                             pre |-> [segments |-> ui.segments,
                                      activeReviews |-> ui.activeReviews, ls |-> ls],
                             discovered |-> << >>, reviews |-> 0,
                             issued |-> <<Call("dna", ui.learnedContext, << >>, NotPassed)>>,
                             outcome |-> "running", failedAt |-> "none"])
    /\ Commit(handleCustomDataLoadedBegin(ui), ls, fetches, FALSE, FALSE, FALSE)
    /\ UNCHANGED <<rt, toastTimers, profReqs, deploys>>

\* a gateway call of run r rejected at step `at`: catch and finally
RunFails(r, kind, at) ==
    /\ runs' = [runs EXCEPT ![r].pc = "done", ![r].outcome = kind, ![r].failedAt = at]
    /\ Commit(finallyIdle(catchQuota(ui, kind)), ls, fetches, FALSE, FALSE, FALSE)
    /\ last' = Settled("ingestion", kind)

\* synthesizeDomainDNA resolved
RunDnaOk ==
    /\ GatewayAnswer
    /\ \E r \in 1..Len(runs) :
         /\ runs[r].pc = "dna"
         /\ LET st == storeNewDna(ui, ls, r)
            IN  /\ runs' = [runs EXCEPT ![r].pc = "discover", ![r].newDna = r,
                                        ![r].issued = Append(@, Call("discover", r, << >>, NotPassed))]
                /\ Commit(st.u, st.l, fetches, TRUE, TRUE, FALSE)
    /\ last' = Settled("ingestion", "ok")
    /\ UNCHANGED <<rt, toastTimers, profReqs, deploys>>

\* synthesizeDomainDNA rejected
RunDnaFail ==
    /\ GatewayAnswer
    /\ \E r \in 1..Len(runs), kind \in FailureKinds :
         runs[r].pc = "dna" /\ RunFails(r, kind, "dna")
    /\ UNCHANGED <<rt, toastTimers, profReqs, deploys>>

\* discoverSegments resolved
RunDiscoverOk ==
    /\ GatewayAnswer
    /\ \E r \in 1..Len(runs), ids \in DiscoveredIdLists :
         /\ runs[r].pc = "discover"
         /\ LET discovered == discoverSegments(ids, r)
                st == afterDiscovery(ui, ls, discovered)
            IN  /\ runs' = [runs EXCEPT ![r].pc = "reviews", ![r].discovered = discovered,
                                        ![r].issued = Append(@, Call("reviews", runs[r].newDna, discovered, NotPassed))]
                /\ Commit(st.u, st.l, fetches, FALSE, FALSE, FALSE)
    /\ last' = Settled("ingestion", "ok")
    /\ UNCHANGED <<rt, toastTimers, profReqs, deploys>>

\* discoverSegments rejected
RunDiscoverFail ==
    /\ GatewayAnswer
    /\ \E r \in 1..Len(runs), kind \in FailureKinds :
         runs[r].pc = "discover" /\ RunFails(r, kind, "discover")
    /\ UNCHANGED <<rt, toastTimers, profReqs, deploys>>

\* generateContextualReviews resolved: lines 169-175, up to the await in fetchInsights;
\* with an empty list discovered[0].id throws a TypeError after the stores were written
RunReviewsOk ==
    /\ GatewayAnswer
    /\ \E r \in 1..Len(runs) :
         /\ runs[r].pc = "reviews"
         /\ LET discovered == runs[r].discovered
                st == replaceStores(ui, ls, discovered, r)
            IN  IF discovered = << >>
                THEN /\ runs' = [runs EXCEPT ![r].pc = "done", ![r].reviews = r,
                                             ![r].outcome = "other", ![r].failedAt = "select"]
                     /\ Commit(finallyIdle(catchQuota(st.u, "other")), st.l, fetches,
                               TRUE, TRUE, FALSE)
                ELSE /\ runs' = [runs EXCEPT ![r].pc = "recs", ![r].reviews = r,
                                             ![r].issued = Append(@, fetchInsightsCall(discovered, r, runs[r].newDna))]
                     /\ Commit(fetchInsightsBegin(addLog(
                                  [st.u EXCEPT !.selectedSegmentId = discovered[1].id],
                                  LogSynthesis)),
                               st.l, fetches, TRUE, TRUE, FALSE)
    /\ last' = Settled("ingestion", "ok")
    /\ UNCHANGED <<rt, toastTimers, profReqs, deploys>>

\* generateContextualReviews rejected
RunReviewsFail ==
    /\ GatewayAnswer
    /\ \E r \in 1..Len(runs), kind \in FailureKinds :
         runs[r].pc = "reviews" /\ RunFails(r, kind, "reviews")
    /\ UNCHANGED <<rt, toastTimers, profReqs, deploys>>

\* the run's own fetchInsights settles (its catch and finally), then the finally
\* of handleCustomDataLoaded
RunRecsDone ==
    /\ GatewayAnswer
    /\ \E r \in 1..Len(runs), out \in {"full", "empty", "quota", "other"} :
         /\ runs[r].pc = "recs"
         /\ LET u == finallyIdle(fetchInsightsEnd(ui, out, runs[r].newDna))
            IN  /\ runs' = [runs EXCEPT ![r].pc = "done",
                              ![r].outcome = IF out \in FailureKinds THEN out ELSE "ok",
                              ![r].failedAt = IF out \in FailureKinds THEN "recs" ELSE "none"]
                /\ Commit(u, ls, fetches,
                          u.recommendations.len # ui.recommendations.len, FALSE, FALSE)
                /\ last' = Settled("ingestion", out)
    /\ UNCHANGED <<rt, toastTimers, profReqs, deploys>>

\* a fetchInsights started by the recommendations effect settles
FetchDone ==
    /\ GatewayAnswer
    /\ \E f \in InFlight(fetches), out \in {"full", "empty", "quota", "other"} :
         LET u == fetchInsightsEnd(ui, out, f.ctx)
         IN  /\ Commit(u, ls, fetches (-) One(f),
                       u.recommendations.len # ui.recommendations.len, FALSE, FALSE)
             /\ last' = Settled("refresh", out)
    /\ UNCHANGED <<rt, toastTimers, runs, profReqs, deploys>>

\* the 500 ms debounce timer fires: Promise.all([getPersonaDetails, analyzeFriction])
TimerFire ==
    /\ ProfilingStep
    /\ \E i \in 1..Len(timers) :
         /\ profReqs' = profReqs (+) One(
                [seg |-> timers[i].seg, selects |-> timers[i].selects,
                 persona |-> "flight", friction |-> "flight", settled |-> FALSE])
         /\ timers' = Remove(timers, i)
    /\ last' = NoCall
    /\ UNCHANGED <<rt, toastTimers, ui, ls, runs, fetches, deploys, crashed>>

\* finally { setProfilingLoading(false); }
finallyProfiling(u) == [u EXCEPT !.profilingLoading = FALSE]

\* one of the two calls of pair i settles with out ("ok", "quota", "other").
\* Promise.all resolves when both resolved and rejects with the first rejection;
\* a pair that already rejected (settled) ignores the other call's outcome.
CallDone(rq, which, out) ==
    LET other == IF which = "persona" THEN rq.friction ELSE rq.persona
        rest == profReqs (-) One(rq)
    IN  /\ rq[which] = "flight"
        /\ last' = Settled("profiling", out)
        /\ IF rq.settled
           THEN /\ profReqs' = rest
                /\ UNCHANGED <<ui, ls, fetches, timers, crashed>>
           ELSE IF out = "ok"
           THEN IF other = "ok"
                THEN /\ profReqs' = rest
                     /\ Commit(finallyProfiling(applyProfile(ui, rq)), ls, fetches,
                               FALSE, FALSE, FALSE)
                ELSE /\ profReqs' = rest (+) One([rq EXCEPT ![which] = "ok"])
                     /\ UNCHANGED <<ui, ls, fetches, timers, crashed>>
           ELSE /\ profReqs' = IF other = "flight"
                               THEN rest (+) One([rq EXCEPT ![which] = "failed",
                                                            !.settled = TRUE])
                               ELSE rest
                /\ Commit(finallyProfiling(catchQuota(ui, out)), ls, fetches,
                          FALSE, FALSE, FALSE)

\* getPersonaDetails settles
PersonaDone ==
    /\ ProfilingStep
    /\ \E rq \in InFlight(profReqs), out \in {"ok", "quota", "other"} :
         CallDone(rq, "persona", out)
    /\ UNCHANGED <<rt, toastTimers, runs, deploys>>

\* analyzeFriction settles
FrictionDone ==
    /\ ProfilingStep
    /\ \E rq \in InFlight(profReqs), out \in {"ok", "quota", "other"} :
         CallDone(rq, "friction", out)
    /\ UNCHANGED <<rt, toastTimers, runs, deploys>>

\* setTimeout(() => setDeploymentToast(null), 3000) fires.  The timers are
\* never cancelled and all have the same delay, so they fire oldest first.
ToastClear ==
    /\ Completion
    /\ toastTimers # << >>
    /\ toastTimers' = Tail(toastTimers)
    /\ Commit([ui EXCEPT !.deploymentToast = NoToast], ls, fetches, FALSE, FALSE, FALSE)
    /\ last' = NoCall
    /\ UNCHANGED <<rt, runs, profReqs, deploys>>

Next ==
    \/ Initialize \/ ExitHub \/ Select \/ ImportDNA
    \/ DeployBegin \/ DeployOk \/ DeployFail \/ StatusUpdate
    \/ Upload \/ RunDnaOk \/ RunDnaFail \/ RunDiscoverOk \/ RunDiscoverFail
    \/ RunReviewsOk \/ RunReviewsFail \/ RunRecsDone \/ FetchDone
    \/ TimerFire \/ PersonaDone \/ FrictionDone \/ ToastClear

Spec == Init /\ [][Next]_vars

BurstSpec == BurstInit /\ [][Next]_vars

\* Every gateway call eventually completes or fails: a pending answer of an
\* ingestion run or of a recommendation refresh is eventually delivered.
LiveInit ==
    rt = RtIdle /\ AppInit /\ smp = NotSampling /\ events = LiveEvents /\ steps = LiveFloor + LiveSteps

GatewayAnswers ==
    WF_vars(\/ RunDnaOk \/ RunDnaFail \/ RunDiscoverOk \/ RunDiscoverFail
            \/ RunReviewsOk \/ RunReviewsFail \/ RunRecsDone \/ FetchDone)

LiveSpec == LiveInit /\ [][Next]_vars /\ GatewayAnswers

\* Reactive profiling under selection changes, store replacements and view
\* switches: the user events of the claim, the debounce timer and every
\* gateway answer; a pending timer eventually fires and a pending call is
\* eventually answered.
ProfilingInit ==
    /\ rt = RtIdle /\ AppInit /\ smp = NotSampling
    /\ events = ProfilingEvents /\ steps = ProfilingFloor + ProfilingSteps

ProfilingNext ==
    \/ Initialize \/ ExitHub \/ Select \/ Upload
    \/ RunDnaOk \/ RunDnaFail \/ RunDiscoverOk \/ RunDiscoverFail
    \/ RunReviewsOk \/ RunReviewsFail \/ RunRecsDone \/ FetchDone
    \/ TimerFire \/ PersonaDone \/ FrictionDone

ProfilingAnswers ==
    /\ WF_vars(TimerFire)
    /\ WF_vars(PersonaDone \/ FrictionDone)

ProfilingSpec ==
    ProfilingInit /\ [][ProfilingNext]_vars /\ GatewayAnswers /\ ProfilingAnswers

\* ------------------------------------------------------------------------
\* Sampling as a state machine: one array of records, then lines 161-162
\* ------------------------------------------------------------------------
SampleInit ==
    /\ rt = RtIdle /\ AppInit /\ events = 0 /\ steps = 0
    /\ \E n \in 0..MaxRecords :
          smp = [NotSampling EXCEPT !.pc = "input", !.data = Records(n)]

TakeSample ==
    /\ smp.pc = "input"
    /\ LET stride == strideOf(Len(smp.data))
       IN  smp' = [smp EXCEPT !.pc = "sampled", !.stride = stride,
                              !.sample = sampleOf(smp.data, stride)]
    /\ UNCHANGED <<rt, ui, ls, runs, fetches, timers, profReqs, deploys, crashed,
                   last, toastTimers, events, steps>>

SampleNext == TakeSample

SampleSpec == SampleInit /\ [][SampleNext]_vars

\* ------------------------------------------------------------------------
\* withRetry as a state machine
\* ------------------------------------------------------------------------
\* withRetry(fn, maxRetries) is called: the loop starts at attempt 0
RetryInit ==
    /\ \E n \in 0..MaxRetriesArg :
          rt = [RtIdle EXCEPT !.pc = "attempt", !.maxRetries = n]
    /\ AppInit /\ smp = NotSampling /\ events = 0 /\ steps = 0

\* return await fn();   (fn resolves)
RetryAttemptOk ==
    /\ rt.pc = "attempt"
    /\ rt.attempt <= rt.maxRetries
    /\ rt' = [rt EXCEPT !.pc = "returned", !.calls = @ + 1,
                        !.result = [value |-> "ok", attempt |-> rt.attempt]]
    /\ UNCHANGED appVars

\* catch (error) { lastError = error; ... }   (err: what the attempt threw)
catchBlock(err) ==
    LET base == [rt EXCEPT !.calls = @ + 1, !.errs = Append(@, err)]
    IN  IF isRateLimit(err)
        THEN IF retriesLeft(rt.attempt, rt.maxRetries)
             THEN rt' = [base EXCEPT !.pc = "waiting",
                                     !.delays = Append(@, backoffDelay(rt.attempt))]
             ELSE rt' = [base EXCEPT !.pc = "thrown",
                                     !.thrown = thrownOnExhaustion(err)]
        ELSE rt' = [base EXCEPT !.pc = "thrown", !.thrown = thrownOther(err)]

\* await fn() rejects: the model call failed with message m
RetryAttemptFail ==
    /\ rt.pc = "attempt"
    /\ rt.attempt <= rt.maxRetries
    /\ \E m \in FnMessages : catchBlock(FnError(rt.calls + 1, m))
    /\ UNCHANGED appVars

\* await fn() rejects: the model answered with a text that JSON.parse rejects
RetryParseFail ==
    /\ rt.pc = "attempt"
    /\ rt.attempt <= rt.maxRetries
    /\ \E t \in MalformedTexts : \E m \in JSONParseMessages(t) :
         catchBlock(ParseError(rt.calls + 1, m))
    /\ UNCHANGED appVars

\* the backoff timer elapses: continue (attempt++); when the loop condition
\* attempt <= maxRetries no longer holds the loop ends and lastError is thrown
RetryWake ==
    /\ rt.pc = "waiting"
    /\ IF rt.attempt + 1 <= rt.maxRetries
       THEN rt' = [rt EXCEPT !.pc = "attempt", !.attempt = @ + 1]
       ELSE rt' = [rt EXCEPT !.pc = "thrown", !.attempt = @ + 1,
                             !.thrown = rt.errs[Len(rt.errs)]]
    /\ UNCHANGED appVars

RetryNext == RetryAttemptOk \/ RetryAttemptFail \/ RetryParseFail \/ RetryWake

RetrySpec == RetryInit /\ [][RetryNext]_vars

\* ------------------------------------------------------------------------
\* Properties of withRetry
\* ------------------------------------------------------------------------
AllRateLimited == \A i \in 1..Len(rt.errs) : isRateLimit(rt.errs[i])

LastErr == rt.errs[Len(rt.errs)]

\* C1: when every attempt of fn fails with a rate-limit-classified error, fn is
\* invoked exactly maxRetries+1 times, the wait before retry k is 2^k * 2000 ms
\* (k = 0..maxRetries-1) and no wait follows the last attempt.
C1_ExhaustionSchedule ==
    (rt.pc = "thrown" /\ AllRateLimited) =>
        /\ rt.calls = rt.maxRetries + 1
        /\ Len(rt.delays) = rt.maxRetries
        /\ \A k \in 0..(rt.maxRetries - 1) : rt.delays[k + 1] = (2 ^ k) * 2000

C1_Witness ==
    /\ rt.pc = "thrown" /\ AllRateLimited
    /\ rt.maxRetries = 3 /\ rt.calls = 4 /\ rt.delays = <<2000, 4000, 8000>>

\* C2: when the retry budget is exhausted on a rate-limit-classified error the
\* call fails with a QuotaError carrying the fixed message, whatever the text
\* of the original error; the thrown object is none of the errors fn threw.
C2_QuotaErrorOnExhaustion ==
    (rt.pc = "thrown" /\ Len(rt.errs) > 0 /\ isRateLimit(LastErr)) =>
        /\ rt.thrown.name = "QuotaError"
        /\ rt.thrown.message = Some(QuotaExceededMessage)
        /\ \A i \in 1..Len(rt.errs) : rt.thrown.obj # rt.errs[i].obj

C2_Witness ==
    /\ rt.pc = "thrown" /\ rt.maxRetries = 2 /\ Len(rt.errs) = 3
    /\ LastErr.message = Some(MsgResExh)
    /\ rt.thrown.name = "QuotaError"

\* C3: a failure that is not rate-limit classified is propagated on the attempt
\* where it occurs: the thrown value is the original error, no delay follows it
\* and fn is not invoked again, on attempt 0 and after earlier retries alike.
C3_OtherErrorPropagates ==
    /\ \A i \in 1..(Len(rt.errs) - 1) : isRateLimit(rt.errs[i])
    /\ (Len(rt.errs) > 0 /\ ~isRateLimit(LastErr)) =>
          /\ rt.pc = "thrown"
          /\ rt.thrown = LastErr
          /\ rt.calls = Len(rt.errs)
          /\ rt.calls = rt.attempt + 1
          /\ Len(rt.delays) = rt.attempt

C3_Witness ==
    /\ rt.pc = "thrown" /\ rt.attempt = 2 /\ Len(rt.errs) = 3
    /\ ~isRateLimit(LastErr) /\ LastErr.message = Some(MsgParse)
    /\ rt.thrown = LastErr

\* ------------------------------------------------------------------------
\* Properties of the ingestion pipeline
\* ------------------------------------------------------------------------
RunIds == 1..Len(runs)

\* run r takes a step in this transition
Steps(r) == r \in 1..Len(runs) /\ runs'[r] # runs[r]

\* a gateway call of run r fails in this transition
FailsAt(r, places) ==
    /\ Steps(r) /\ runs'[r].pc = "done" /\ runs'[r].failedAt \in places

GatewaySteps == {"dna", "discover", "reviews", "recs"}

CallsUpTo(place) ==
    CASE place = "dna" -> <<"dna">>
      [] place = "discover" -> <<"dna", "discover">>
      [] place = "reviews" -> <<"dna", "discover", "reviews">>
      [] place = "recs" -> <<"dna", "discover", "reviews", "recs">>

IssuedOps(r) == [i \in 1..Len(runs[r].issued) |-> runs[r].issued[i].op]

\* C4: a QuotaError raised by any gateway call of an ingestion run (DNA
\* synthesis, segment discovery, review synthesis, recommendation generation)
\* ends the run: the calls the run has issued stop at the failed one and none is
\* issued later, the error state becomes the quota error and the progress step
\* is idle when the run ends.
C4_QuotaAbortsRun ==
    [][\A r \in RunIds :
          /\ (FailsAt(r, GatewaySteps) /\ runs'[r].outcome = "quota") =>
                /\ ui'.error = QuotaErrorState
                /\ ui'.progressStep = "idle"
                /\ runs'[r].issued = runs[r].issued
                /\ IssuedOps(r) = CallsUpTo(runs'[r].failedAt)
          /\ runs[r].pc = "done" => runs'[r] = runs[r]]_vars

C4_Witness ==
    \E r \in RunIds :
        /\ runs[r].pc = "done" /\ runs[r].outcome = "quota" /\ runs[r].failedAt = "reviews"
        /\ IssuedOps(r) = <<"dna", "discover", "reviews">>
        /\ ui.error = QuotaErrorState /\ ui.progressStep = "idle"

\* C5: in an ingestion run whose gateway calls all succeed the progress step is
\* parsing while DNA synthesis is in flight and analyzing from the start of
\* segment discovery until the recommendation call completes, with no early
\* return to idle (stated for the states in which a single run was started).
C5_ProgressFollowsRun ==
    Len(runs) = 1 =>
        /\ runs[1].pc = "dna" => ui.progressStep = "parsing"
        /\ runs[1].pc \in {"discover", "reviews", "recs"} => ui.progressStep = "analyzing"

SegKeys(segs) == [i \in 1..Len(segs) |-> SegKey(segs[i])]

\* the four places the segment and review collections live in
Stores == <<ui.segments, ui.activeReviews, ls.affinity_segments, ls.active_reviews>>

\* C6 as stated: when DNA synthesis succeeded and a later gateway call of the
\* run fails, the segment and review collections, in memory and persisted, are
\* the ones from before the run (the same segment objects, the same reviews;
\* stated for the states in which a single run was started).
C6_StoresAsBeforeRun ==
    [][\A r \in RunIds :
          (Len(runs) = 1 /\ FailsAt(r, {"discover", "reviews", "recs"})) =>
             /\ SegKeys(ui'.segments) = SegKeys(runs[r].pre.segments)
             /\ ui'.activeReviews = runs[r].pre.activeReviews
             /\ ls'.affinity_segments = runs[r].pre.ls.affinity_segments
             /\ ls'.active_reviews = runs[r].pre.ls.active_reviews]_vars

\* C6 amended: the step that ends DNA synthesis stores the new context in memory
\* and in 'neural_dna'.  When segment discovery or review synthesis of the run
\* then fails, nothing is rolled back and the run has written neither
\* collection: no step of the run up to and including the failing one changes
\* the segments or the reviews, in memory or persisted, and the failing step
\* leaves the context and 'neural_dna' as they are.  A failing recommendation
\* call comes after both collections were replaced and leaves them replaced.
C6_PartialProgressKept ==
    [][\A r \in RunIds :
          /\ (Steps(r) /\ runs[r].pc = "dna" /\ runs'[r].pc = "discover") =>
                /\ ui'.learnedContext = runs'[r].newDna
                /\ ls'.neural_dna = <<runs'[r].newDna>>
          /\ (Steps(r) /\ runs[r].pc \in {"dna", "discover"}) => Stores' = Stores
          /\ FailsAt(r, {"discover", "reviews", "recs"}) =>
                /\ ui'.learnedContext = ui.learnedContext
                /\ ls' = ls
                /\ ui'.segments = ui.segments
                /\ ui'.activeReviews = ui.activeReviews
          /\ FailsAt(r, {"recs"}) =>
                /\ ls'.affinity_segments = <<runs[r].discovered>>
                /\ ls'.active_reviews = <<runs[r].reviews>>]_vars

C6_Witness ==
    \E r \in RunIds :
        /\ runs[r].pc = "done" /\ runs[r].failedAt = "reviews"
        /\ ui.learnedContext = runs[r].newDna /\ ls.neural_dna = <<runs[r].newDna>>
        /\ ui.segments = runs[r].pre.segments /\ ls.affinity_segments = << >>

\* C7: segments and reviews are replaced together or not at all.  The step in
\* which review synthesis succeeds (at least one segment discovered) makes the
\* segment store the discovered list and the review store the synthesized
\* reviews, persists both and selects the first discovered segment; the step in
\* which discovery succeeds, and a step in which either call fails, change
\* neither store nor either persisted entry.
C7_ReplacedTogether ==
    [][\A r \in RunIds :
          /\ (Steps(r) /\ runs[r].pc = "reviews" /\ runs'[r].pc = "recs") =>
                /\ Len(runs[r].discovered) >= 1
                /\ ui'.segments = runs[r].discovered
                /\ ui'.activeReviews = runs'[r].reviews
                /\ ls'.affinity_segments = <<runs[r].discovered>>
                /\ ls'.active_reviews = <<runs'[r].reviews>>
                /\ ui'.selectedSegmentId = runs[r].discovered[1].id
          /\ (Steps(r) /\ runs[r].pc = "discover") => Stores' = Stores
          /\ FailsAt(r, {"discover", "reviews"}) => Stores' = Stores]_vars

C7_Witness ==
    \E r \in RunIds :
        /\ runs[r].pc = "recs" /\ Len(runs[r].discovered) = 2
        /\ ui.segments = runs[r].discovered /\ ui.activeReviews = r
        /\ ls.affinity_segments = <<runs[r].discovered>> /\ ls.active_reviews = <<r>>
        /\ ui.selectedSegmentId = runs[r].discovered[1].id
        /\ ui.segments # runs[r].pre.segments

\* the step of run r that replaces the segment store
Replaces(r) == Steps(r) /\ runs[r].pc = "reviews" /\ runs'[r].failedAt # "reviews"

\* C8: immediately after an ingestion run replaced the segment store, every
\* stored segment has status Discovery and no manifest, also when a previous
\* segment with the same id had status Active Strategy and a manifest.
C8_ReplacementResetsStatus ==
    [][\A r \in RunIds :
          Replaces(r) =>
             /\ ui'.segments = runs[r].discovered
             /\ \A i \in 1..Len(ui'.segments) :
                   /\ ui'.segments[i].status = "Discovery"
                   /\ ui'.segments[i].manifest = NoManifest]_vars

\* (the store replaced by the run held, when the run began, an Active Strategy
\* segment with a manifest whose id a discovered segment reuses)
C8_Witness ==
    \E r \in RunIds :
        /\ runs[r].pc = "recs" /\ ui.segments = runs[r].discovered
        /\ \E i \in 1..Len(runs[r].pre.segments), j \in 1..Len(ui.segments) :
              /\ runs[r].pre.segments[i].status = "Active Strategy"
              /\ runs[r].pre.segments[i].manifest # NoManifest
              /\ runs[r].pre.segments[i].id = ui.segments[j].id
              /\ ui.segments[j].status = "Discovery"
              /\ ui.segments[j].manifest = NoManifest

\* ------------------------------------------------------------------------
\* Properties of reactive profiling
\* ------------------------------------------------------------------------
\* the request pairs issued in this transition (both calls just started)
NewRequests ==
    {rq \in BagToSet(profReqs') :
        /\ CopiesIn(rq, profReqs') > CopiesIn(rq, profReqs)
        /\ rq.persona = "flight" /\ rq.friction = "flight" /\ ~rq.settled}

\* C9: when the selection changes again before the debounce timer fires, the
\* superseded timer is cancelled: at most one timer is pending, it is for the
\* active segment, and a firing timer issues exactly one request pair, for the
\* last selected segment, leaving no other timer to fire.
C9_DebounceIssuesOnePair ==
    [][/\ Len(timers') <= 1
       /\ \A i \in 1..Len(timers') : timers'[i].seg = SegKey(ActiveNow')
       /\ \A rq \in NewRequests :
             /\ rq.seg = SegKey(ActiveNow')
             /\ rq.seg[1] = ui'.selectedSegmentId
             /\ timers' = << >>
             /\ BagCardinality(profReqs') = BagCardinality(profReqs) + 1]_vars

\* (three selection changes inside one debounce window, then one request pair)
C9_Witness ==
    /\ BagCardinality(profReqs) = 1
    /\ timers = << >>
    /\ \E rq \in BagToSet(profReqs) :
          /\ rq.selects = 3
          /\ rq.persona = "flight" /\ rq.friction = "flight"
          /\ rq.seg[1] = ui.selectedSegmentId

\* C10: results of a profiling request pair are applied only when they were
\* computed for the segment that is active when they arrive; results for a
\* segment that is no longer active are discarded.
C10_StaleResultsDiscarded ==
    [][ui'.personaDetails # ui.personaDetails \/ ui'.frictionData # ui.frictionData =>
          /\ ui'.personaDetails.seg = SegKey(ActiveNow')
          /\ ui'.frictionData.seg = SegKey(ActiveNow')]_vars

\* ------------------------------------------------------------------------
\* Properties of deployment
\* ------------------------------------------------------------------------
\* the step in which Generate-Campaign-Manifest settles
DeploySettles(outs) == last'.flow = "deployment" /\ last'.out \in outs

\* the request that settles in this step
SettledDeploys == {d \in InFlight(deploys) : deploys' = deploys (-) One(d)}

\* C11: when Generate-Campaign-Manifest fails, with a QuotaError or any other
\* error, the step leaves every stored segment as it is (the status and the
\* manifest of the target included), adds one log entry and leaves the
\* user-visible error state unchanged.
C11_DeployFailureIsLoggedOnly ==
    [][DeploySettles(FailureKinds) =>
          /\ ui'.segments = ui.segments
          /\ ui'.error = ui.error
          /\ ui'.logs = Append(sliceLast(ui.logs, LogsKept), LogDeployFailed)
          /\ ls' = ls]_vars

\* (a deployment failed with QuotaError: target untouched, no error shown)
C11_Witness ==
    /\ last = Settled("deployment", "quota")
    /\ ui.logs[Len(ui.logs)] = LogDeployFailed
    /\ ui.error = NoErrorState
    /\ ui.segments = MOCK_SEGMENTS

\* C12: when Generate-Campaign-Manifest succeeds, one step gives every stored
\* segment with the requested id the status Active Strategy and the returned
\* manifest; the segment keeps its other fields as the store holds them at
\* that moment, and every other segment stays as it is.
C12_DeploySuccessMerges ==
    [][DeploySettles({"ok"}) =>
          \E d \in SettledDeploys :
             /\ Len(ui'.segments) = Len(ui.segments)
             /\ \A i \in 1..Len(ui.segments) :
                   IF ui.segments[i].id = d.id
                   THEN /\ ui'.segments[i].status = "Active Strategy"
                        /\ ui'.segments[i].manifest = [id |-> d.seg[1], gen |-> d.seg[2]]
                        /\ ui'.segments[i].id = ui.segments[i].id
                        /\ ui'.segments[i].gen = ui.segments[i].gen
                   ELSE ui'.segments[i] = ui.segments[i]]_vars

\* (the store was replaced while the request was in flight: the segment that
\* now has the id keeps its own fields, the other segment is untouched)
C12_Witness ==
    /\ last = Settled("deployment", "ok")
    /\ Len(ui.segments) = 2
    /\ \E i, j \in 1..2 :
          /\ ui.segments[i].status = "Active Strategy"
          /\ ui.segments[i].manifest # NoManifest
          /\ ui.segments[i].gen # ui.segments[i].manifest.gen
          /\ ui.segments[j] = Segment(ui.segments[j].id, ui.segments[i].gen)
          /\ i # j

\* ------------------------------------------------------------------------
\* Properties of the controller as a whole
\* ------------------------------------------------------------------------
\* the ingestion runs that have not finished
RunsInFlight == {r \in RunIds : runs[r].pc # "done"}

\* C13: at most one ingestion run is in flight at any time.
C13_OneRunInFlight == Cardinality(RunsInFlight) <= 1

\* C14: when Discover-Segments answered with an empty list the run ends
\* without an unhandled failure, no segment is active and the dashboard can
\* still be rendered.
C14_EmptyDiscoveryKeepsDashboard ==
    \A r \in RunIds :
        runs[r].discovered = << >> /\ runs[r].pc \in {"recs", "done"} /\ runs[r].reviews # 0 =>
            /\ runs[r].pc = "done"
            /\ ActiveNow = NoSegment
            /\ ~crashed

\* C15: whenever a gateway call fails with QuotaError, in whichever flow, the
\* user-visible error state is the quota error with the fixed message when the
\* step that handles the failure ends.
C15_QuotaAlwaysSurfaced ==
    last.out = "quota" => ui.error = QuotaErrorState

\* the positions of the store whose segment has the selected id
SelectedPositions ==
    {i \in 1..Len(ui.segments) : ui.segments[i].id = ui.selectedSegmentId}

\* C16: in every reachable state the selected id designates exactly one
\* stored segment.
C16_ExactlyOneSelected == Cardinality(SelectedPositions) = 1

\* C17: every stored segment whose status is Active Strategy has a manifest
\* (the initial store holds no Active Strategy segment).
C17_ActiveStrategyHasManifest ==
    \A i \in 1..Len(ui.segments) :
        ui.segments[i].status = "Active Strategy" => ui.segments[i].manifest # NoManifest

\* (a deployment completed on a store that an ingestion run had replaced)
C17_Witness ==
    /\ last = Settled("deployment", "ok")
    /\ \E i \in 1..Len(ui.segments) :
          /\ ui.segments[i].status = "Active Strategy"
          /\ ui.segments[i].manifest # NoManifest
          /\ ui.segments[i].gen > 0
    /\ \E r \in RunIds : runs[r].pc \in {"recs", "done"}

\* a Generate-Merchandising-Recommendations request is issued in this step
RecsRequested ==
    \/ BagCardinality(fetches') > BagCardinality(fetches)
    \/ \E r \in RunIds : runs[r].pc = "reviews" /\ runs'[r].pc = "recs"

\* C18: on the dashboard every change of the segment store, the review store
\* or the domain context is followed at once by a new recommendation request,
\* also when a non-empty recommendation list is held.
C18_RecomputedOnEveryChange ==
    [][(/\ ui'.view = "dashboard"
        /\ ~crashed'
        /\ \/ ui'.segments # ui.segments
           \/ ui'.activeReviews # ui.activeReviews
           \/ ui'.learnedContext # ui.learnedContext) => RecsRequested]_vars

\* C19: a manifest attached to a stored segment was synthesized from that
\* same segment (the same object generation, not only the same id).
C19_ManifestOwnedBySegment ==
    \A i \in 1..Len(ui.segments) :
        \/ ui.segments[i].manifest = NoManifest
        \/ ui.segments[i].manifest = [id |-> ui.segments[i].id, gen |-> ui.segments[i].gen]

\* C20: the profiling-loading flag is false only when no request pair for the
\* active segment has a call in flight.
C20_ReadyOnlyWhenBothDone ==
    ~ui.profilingLoading =>
        \A rq \in InFlight(profReqs) :
            rq.seg = SegKey(ActiveNow) => rq.persona # "flight" /\ rq.friction # "flight"

\* ------------------------------------------------------------------------
\* Further properties of withRetry
\* ------------------------------------------------------------------------
\* the error messages of the model that contain '429', 'resource_exhausted' or
\* 'quota' in some letter case (listed by hand, not computed)
MarkedMessages ==
    {Msg429, MsgQuotaCap, MsgResExh, MsgQuotLow,
     ParseMessageQuoting(TextQuota), ParseMessageQuoting(Text429)}

Marked(err) == err.message # Undefined /\ err.message[1] \in MarkedMessages

\* the i-th failure of fn was treated as rate limiting: a backoff wait and
\* another attempt follow it, or QuotaError was thrown for it
TreatedAsRateLimit(i) ==
    \/ i < Len(rt.errs)
    \/ rt.pc \in {"waiting", "attempt", "returned"}
    \/ rt.pc = "thrown" /\ rt.thrown.name = "QuotaError"

\* C22: a gateway call whose response text is not valid JSON fails with the
\* parse failure after that one invocation: the SyntaxError is the last
\* failure of fn and is what withRetry throws, whatever the text contains.
C22_ParseFailureNotRetried ==
    \A i \in 1..Len(rt.errs) :
        rt.errs[i].name = "SyntaxError" =>
            /\ i = Len(rt.errs)
            /\ rt.pc = "thrown"
            /\ rt.thrown = rt.errs[i]

\* C25: a failure is treated as rate limiting exactly when its message contains
\* '429', 'resource_exhausted' or 'quota' in any letter case; an error without
\* a message is not (it is propagated without retry).
C25_ClassifiedByMarker ==
    \A i \in 1..Len(rt.errs) : Marked(rt.errs[i]) <=> TreatedAsRateLimit(i)

\* (an upper-case marker was retried, then an error without message propagated)
C25_Witness ==
    /\ Len(rt.errs) = 2
    /\ rt.errs[1].message = Some(MsgQuotaCap)
    /\ rt.errs[2].message = Undefined
    /\ rt.pc = "thrown" /\ rt.thrown = rt.errs[2]

\* C29: for any sequence of attempt outcomes fn is invoked at most maxRetries+1
\* times, only while no attempt has succeeded and every failure so far was a
\* rate-limit one; the call returns the value of the first successful attempt
\* and nothing happens after the call has returned or thrown.
C29_AttemptsBounded ==
    [][/\ rt'.calls <= rt'.maxRetries + 1
       /\ rt'.calls > rt.calls =>
             /\ rt.pc = "attempt" /\ rt.result = NoResult
             /\ \A i \in 1..Len(rt.errs) : Marked(rt.errs[i])
       /\ rt'.pc = "returned" =>
             /\ rt'.result = [value |-> "ok", attempt |-> Len(rt.errs)]
             /\ rt'.calls = Len(rt.errs) + 1
             /\ rt'.errs = rt.errs
       /\ rt.pc \in {"returned", "thrown"} => rt' = rt]_vars

\* (two rate-limited attempts, then the third attempt succeeds and is returned)
C29_Witness ==
    /\ rt.pc = "returned" /\ rt.maxRetries = 3
    /\ rt.calls = 3 /\ Len(rt.errs) = 2
    /\ rt.result = [value |-> "ok", attempt |-> 2]

\* ------------------------------------------------------------------------
\* Properties of the systematic sampling
\* ------------------------------------------------------------------------
Min(a, b) == IF a <= b THEN a ELSE b

\* C23: for N records and stride = max(1, floor(N/50)) the sample has
\* min(50, ceil(N/stride)) records, the records at indices 0, stride,
\* 2*stride, ... in input order; for N <= 50 the stride is 1 and the sample is
\* the input.
C23_SystematicSample ==
    smp.pc = "sampled" =>
        LET N == Len(smp.data)
            stride == IF N >= 50 THEN N \div 50 ELSE 1
        IN  /\ smp.stride = stride
            /\ Len(smp.sample) = Min(50, (N + stride - 1) \div stride)
            /\ \A k \in 1..Len(smp.sample) : smp.sample[k] = smp.data[(k - 1) * stride + 1]
            /\ N <= 50 => stride = 1 /\ smp.sample = smp.data

\* (160 records: stride 3, 50 records kept, the last one from index 147)
C23_Witness ==
    /\ smp.pc = "sampled" /\ Len(smp.data) = 160
    /\ smp.stride = 3 /\ Len(smp.sample) = 50
    /\ smp.sample[2] = 1003 /\ smp.sample[50] = 1147

\* C24 as stated: for every input the sample includes the record at index 0.
C24_IncludesFirstRecord ==
    smp.pc = "sampled" =>
        /\ Len(smp.data) >= 1
        /\ Len(smp.sample) >= 1
        /\ smp.sample[1] = smp.data[1]

\* C24 amended: for every input of at least one record the sample begins with
\* the record at index 0; for an empty input the sample is empty.
C24_IncludesFirstRecordIfAny ==
    smp.pc = "sampled" =>
        IF Len(smp.data) >= 1
        THEN Len(smp.sample) >= 1 /\ smp.sample[1] = smp.data[1]
        ELSE smp.sample = << >>

\* (101 records, stride 2: the sample begins with record 0 and skips record 1)
C24_Witness ==
    /\ smp.pc = "sampled" /\ Len(smp.data) = 101 /\ smp.stride = 2
    /\ smp.sample[1] = 1000 /\ smp.sample[2] = 1002

\* ------------------------------------------------------------------------
\* Further properties of the controller
\* ------------------------------------------------------------------------
\* C30 as stated: a recommendation refresh that is not part of the ingestion
\* run and settles while the run is in flight leaves the loading flag true and
\* the progress step non-idle.
C30_RefreshLeavesRunBusy ==
    [][(last'.flow = "refresh" /\ RunsInFlight # {}) =>
          ui'.loading /\ ui'.progressStep # "idle"]_vars

\* a recommendation call made by fetchInsights (for the effect or as the last
\* step of a run) fails with an error of one of the kinds in this transition
RefreshFails(kinds) ==
    \/ last'.flow = "refresh" /\ last'.out \in kinds
    \/ \E r \in RunIds : FailsAt(r, {"recs"}) /\ runs'[r].outcome \in kinds

\* the Promise.all of a profiling pair rejects in this transition with an
\* error of one of the kinds (the pair had not rejected before)
ProfilingRejects(kinds) ==
    /\ last'.flow = "profiling" /\ last'.out \in kinds
    /\ \E rq \in InFlight(profReqs) :
          /\ ~rq.settled
          /\ \/ profReqs' = profReqs (-) One(rq)
             \/ \E which \in {"persona", "friction"} :
                   profReqs' = (profReqs (-) One(rq))
                                 (+) One([rq EXCEPT ![which] = "failed", !.settled = TRUE])

\* C28: a failure other than QuotaError of the recommendation call or of a
\* profiling pair leaves the user-visible error state, the recommendations,
\* the persona details and the friction data as they were, and clears the
\* loading flag of its flow (loading, respectively profilingLoading).
C28_OtherFailureDropped ==
    [][/\ RefreshFails({"other"}) =>
             /\ ui'.error = ui.error
             /\ ui'.recommendations = ui.recommendations
             /\ ~ui'.loading
       /\ ProfilingRejects({"other"}) =>
             /\ ui'.error = ui.error
             /\ ui'.personaDetails = ui.personaDetails
             /\ ui'.frictionData = ui.frictionData
             /\ ~ui'.profilingLoading]_vars

\* (the pair for segment 2 rejected while the details of segment 1 are held)
C28_Witness ==
    /\ last = Settled("profiling", "other")
    /\ ui.selectedSegmentId = 2
    /\ ui.personaDetails.seg[1] = 1 /\ ui.frictionData.seg[1] = 1
    /\ ~ui.profilingLoading
    /\ ui.error = NoErrorState

\* the request run r issues in this transition
Issues(r) == runs'[r].issued[Len(runs'[r].issued)]

\* the steps of run r that follow the answers of DNA synthesis, discovery and
\* review synthesis
AfterDna(r) == Steps(r) /\ runs[r].pc = "dna" /\ runs'[r].pc = "discover"
AfterDiscovery(r) == Steps(r) /\ runs[r].pc = "discover" /\ runs'[r].pc = "reviews"
AfterReviews(r) == Steps(r) /\ runs[r].pc = "reviews" /\ runs'[r].pc = "recs"

\* the order of the calls of run r and what the first three of them are given
OrderOfCalls(r) ==
    /\ Steps(r) =>
          /\ Len(runs'[r].issued) <= Len(runs[r].issued) + 1
          /\ Len(runs'[r].issued) = Len(runs[r].issued) + 1 =>
                AfterDna(r) \/ AfterDiscovery(r) \/ AfterReviews(r)
    /\ AfterDna(r) =>
          /\ ui'.learnedContext = runs'[r].newDna
          /\ ls'.neural_dna = <<runs'[r].newDna>>
          /\ runs'[r].newDna # runs[r].prevCtx
          /\ Issues(r).op = "discover" /\ Issues(r).ctx = runs'[r].newDna
    /\ AfterDiscovery(r) =>
          /\ Issues(r).op = "reviews" /\ Issues(r).segs = runs'[r].discovered
    /\ AfterReviews(r) =>
          /\ ui'.segments = runs[r].discovered /\ ls'.affinity_segments = <<runs[r].discovered>>
          /\ ui'.activeReviews = runs'[r].reviews /\ ls'.active_reviews = <<runs'[r].reviews>>
          /\ Issues(r).op = "recs"
          /\ Issues(r).segs = runs[r].discovered /\ Issues(r).ctx = runs[r].newDna

\* C27 as stated: Discover-Segments is issued only after DNA synthesis
\* succeeded and the new context was stored and persisted, and receives it;
\* Generate-Contextual-Reviews only after discovery succeeded, with the
\* discovered segments; Generate-Merchandising-Recommendations only after both
\* stores were replaced, with the new segments, reviews and context.
C27_OrderAndArguments ==
    [][\A r \in RunIds :
          /\ OrderOfCalls(r)
          /\ AfterReviews(r) => Issues(r).reviews = <<runs'[r].reviews>>]_vars

\* C27 amended: the same order; Generate-Merchandising-Recommendations
\* receives the new segments and the new context and is not given the reviews.
C27_OrderAndArgumentsNoReviews ==
    [][\A r \in RunIds :
          /\ OrderOfCalls(r)
          /\ AfterReviews(r) => Issues(r).reviews = NotPassed]_vars

\* (a run has issued its four calls, the last one after both stores were replaced)
C27_Witness ==
    \E r \in RunIds :
        /\ runs[r].pc = "recs"
        /\ IssuedOps(r) = <<"dna", "discover", "reviews", "recs">>
        /\ runs[r].issued[2].ctx = runs[r].newDna
        /\ runs[r].issued[3].segs = runs[r].discovered
        /\ runs[r].issued[4].segs = ui.segments /\ runs[r].issued[4].ctx = ui.learnedContext
        /\ ui.activeReviews = runs[r].reviews

\* the notification whose clear timer was armed last
LatestToast == toastTimers[Len(toastTimers)].armedAt

\* C21 as stated: a deployment notification stays set until its own timer
\* fires, 3000 ms after it was emitted, also when an earlier deployment
\* succeeded less than 3000 ms before (while the timer of the latest
\* notification is pending, that notification is the one displayed).
C21_ToastStaysUntilOwnTimer ==
    toastTimers # << >> =>
        /\ ui.deploymentToast # NoToast
        /\ ui.deploymentToast.emittedAt = LatestToast

\* an ingestion run, respectively a recommendation refresh started by the
\* effect, ends in this transition
RunEnds == \E r \in RunIds : Steps(r) /\ runs'[r].pc = "done"
RefreshEnds == last'.flow = "refresh"

\* the effect of lines 128-130 starts a refresh in the step that ends a run
\* (no request leaves) or a refresh (one request leaves)
RefreshStartsAfterRun == BagCardinality(fetches') > BagCardinality(fetches)
RefreshStartsAfterRefresh == BagCardinality(fetches') >= BagCardinality(fetches)

\* C26: when every gateway call eventually completes or fails, every started
\* ingestion run and every started recommendation refresh eventually ends,
\* whatever the outcomes of its calls, and its end leaves the progress step
\* idle and the loading flag false; the flag is true after the step only when
\* the effect started a new refresh on the state the finally block produced.
\* (A run or refresh that is still in flight when the render has thrown is not
\* followed further: the component state no longer exists.)
C26_RunsAndRefreshesEnd ==
    /\ [][/\ RunEnds =>
               ui'.progressStep = "idle" /\ (~ui'.loading \/ RefreshStartsAfterRun)
          /\ RefreshEnds =>
               ui'.progressStep = "idle" /\ (~ui'.loading \/ RefreshStartsAfterRefresh)]_vars
    /\ (RunsInFlight # {}) ~> (crashed \/ RunsInFlight = {})
    /\ (fetches # EmptyBag) ~> (crashed \/ fetches = EmptyBag)

\* (a run was ended by its failing recommendation call and no refresh is pending)
C26_Witness ==
    /\ ~crashed /\ fetches = EmptyBag
    /\ \E r \in RunIds : runs[r].pc = "done" /\ runs[r].failedAt = "recs"
    /\ ~ui.loading /\ ui.progressStep = "idle"

\* ------------------------------------------------------------------------
\* Deployment reports and the durable store
\* ------------------------------------------------------------------------
\* the step reports a deployment as succeeded: the notification is set and
\* DEPLOYMENT COMPLETE is the newest log entry
ReportsSuccess ==
    /\ ui'.deploymentToast # NoToast /\ ui'.deploymentToast # ui.deploymentToast
    /\ ui'.logs[Len(ui'.logs)] = LogDeployComplete

\* C31 as stated: a step reports a deployment as succeeded only when it
\* attached the manifest to a segment of the current store; when the target id
\* is no longer in the store at completion, no success is reported.
C31_SuccessOnlyIfAttached ==
    [][(DeploySettles({"ok"}) /\ ReportsSuccess) =>
          \E d \in SettledDeploys :
             /\ findSegment(ui.segments, d.id) # NoSegment
             /\ findSegment(ui'.segments, d.id).manifest = [id |-> d.seg[1], gen |-> d.seg[2]]]_vars

\* handleSegmentUpdate runs in this transition: a deployment is requested or
\* settles, or a status is changed without a gateway call
SegmentUpdateStep ==
    \/ deploys' # deploys
    \/ last'.flow = "deployment"
    \/ /\ events' # events /\ runs' = runs /\ deploys' = deploys
       /\ ui'.view = ui.view /\ ui'.logs = ui.logs
       /\ ui'.selectedSegmentId = ui.selectedSegmentId

\* run r wrote its discovered segments and its reviews to localStorage
WroteStores(r) ==
    /\ \/ runs[r].pc = "recs"
       \/ runs[r].pc = "done" /\ runs[r].failedAt \notin {"dna", "discover", "reviews"}
    /\ ls.affinity_segments = <<runs[r].discovered>>
    /\ ls.active_reviews = <<runs[r].reviews>>

\* the persisted segments are all at status Discovery and carry no manifest
PersistedAsDiscovered ==
    \A k \in 1..Len(ls.affinity_segments) :
        \A i \in 1..Len(ls.affinity_segments[k]) :
            /\ ls.affinity_segments[k][i].status = "Discovery"
            /\ ls.affinity_segments[k][i].manifest = NoManifest

\* no step of handleSegmentUpdate writes localStorage, and the persisted
\* collections change only in the step of a run that replaces the stores
DurableStoreFrame ==
    /\ SegmentUpdateStep => ls' = ls
    /\ (ls'.affinity_segments # ls.affinity_segments
          \/ ls'.active_reviews # ls.active_reviews) => \E r \in RunIds : Replaces(r)

\* C32 as stated: handleSegmentUpdate never writes the durable store, and a
\* persisted segment collection is the result of the last successful ingestion
\* run (a run that has not failed), every segment at Discovery without manifest.
C32_PersistedBySuccessfulRun ==
    /\ [][DurableStoreFrame]_vars
    /\ [](ls.affinity_segments # << >> =>
            /\ PersistedAsDiscovered
            /\ \E r \in RunIds : WroteStores(r) /\ runs[r].outcome \in {"running", "ok"})

\* C32 amended: as above, but the persisted collection is the result of the
\* last run that reached the store replacement, whether or not that run
\* failed afterwards.
C32_PersistedByReplacingRun ==
    /\ [][DurableStoreFrame]_vars
    /\ [](ls.affinity_segments # << >> =>
            /\ PersistedAsDiscovered
            /\ \E r \in RunIds : WroteStores(r))

\* (a deployment succeeded on a store written by a run: the segment in memory
\* is deployed, the persisted one is still at Discovery)
C32_Witness ==
    /\ last = Settled("deployment", "ok")
    /\ ls.affinity_segments # << >>
    /\ \E i \in 1..Len(ui.segments) :
          /\ ui.segments[i].status = "Active Strategy"
          /\ ls.affinity_segments[1][i].id = ui.segments[i].id
          /\ ls.affinity_segments[1][i].status = "Discovery"

\* C33 as stated: when every pending timer fires and every gateway call is
\* answered, a set profiling-loading flag is eventually cleared (or the render
\* has thrown and the flag no longer exists), whatever selection changes,
\* store replacements and view switches happen.
C33_ProfilingLoadingClears ==
    ui.profilingLoading ~> (~ui.profilingLoading \/ crashed)

====
